---- MODULE Spec2Model ----
(***************************************************************************)
(* Model of update.py, the self-updating portfolio data fetcher.           *)
(*                                                                         *)
(* Representation of Python values:                                        *)
(*   - a str is a sequence of atoms (an atom is one character, or a fixed  *)
(*     chunk of characters that the program never looks into); "" is <<>>  *)
(*     and string concatenation is \o;                                     *)
(*   - a dict is a TLA+ record / function on strings, {} is <<>>, and      *)
(*     d.get(k, default) is Get(d, k, default);                            *)
(*   - a list is a sequence; a response body that is a JSON array is the   *)
(*     record JsonArray(sequence), so that it can be told from a dict;     *)
(*   - None is the record Null.                                            *)
(***************************************************************************)
EXTENDS Naturals, Sequences, FiniteSets, TLC

VARIABLES
    pc,               \* position of the run inside main() / the function under test
    env,              \* which configuration values exist (set once, read only)
    now,              \* the wall clock read by datetime.now()
    requests,         \* the HTTP requests issued so far, in order
    resp,             \* what each endpoint answered in this run (NoResp if never asked)
    rawFile,          \* content of linkedin_raw.json
    dataFile,         \* content of data.json
    dataWrites,       \* how many times data.json was written in this run
    linkedin_data,    \* main(): linkedin_data
    idx,              \* parse_linkedin_posts: position of the for loop
    emitted,          \* parse_linkedin_posts: the local list `posts` before truncation
    posts,            \* main(): posts, the value parse_linkedin_posts returned
    call,             \* which invocation of parse_linkedin_posts is running (1 or 2)
    firstPosts,       \* what the first invocation returned, kept for comparison
    github_activity,  \* main(): github_activity
    youtube_videos,   \* main(): youtube_videos
    raised            \* the exception main() re-raised, "" if none

vars == <<pc, env, now, requests, resp, rawFile, dataFile, dataWrites, linkedin_data,
          idx, emitted, posts, call, firstPosts, github_activity, youtube_videos, raised>>

---------------------------------------------------------------------------
(* Bounds of the model *)

\* longest payload built from every kind of element
MaxShort == 2
\* longest payload built from the three kinds of LongKinds
MaxElems == 6
\* the clock can advance this many times during a behaviour
MaxClock == 1
\* longest content string enumerated for the preview
MaxContentLen == 9
\* largest number of items a playlistItems response holds
MaxItems == 6
\* largest number of commits a commits response holds
MaxCommits == 4
\* largest number of repositories a listing response holds
MaxRepos == 2
\* longest payload the social endpoints return in a whole run
MaxMainElems == 1

(* Program constants *)

\* posts[:5]
POSTS_LIMIT == 5
\* content.split()[:5]
PREVIEW_WORDS == 5
\* commits_data[:3]
COMMITS_LIMIT == 3
\* commit.get("sha", "")[:7]
SHA_LEN == 7
\* fetch_youtube_latest_videos(max_results=5)
MAX_RESULTS == 5

---------------------------------------------------------------------------
(* Python helpers *)

Null == [null |-> TRUE]

EmptyDict == << >>

Get(d, k, default) == IF k \in DOMAIN d THEN d[k] ELSE default

Min(a, b) == IF a < b THEN a ELSE b

\* s[:n] of a list or str
Take(s, n) == SubSeq(s, 1, Min(n, Len(s)))

Whitespace == {" ", "\n", "\t", "\r", "\f"}

\* str.split(): the maximal runs of non-whitespace characters, in order
RECURSIVE SplitFrom(_, _, _)
SplitFrom(s, i, word) ==
    IF i > Len(s)
    THEN IF word = << >> THEN << >> ELSE << word >>
    ELSE IF s[i] \in Whitespace
         THEN IF word = << >>
              THEN SplitFrom(s, i + 1, << >>)
              ELSE << word >> \o SplitFrom(s, i + 1, << >>)
         ELSE SplitFrom(s, i + 1, Append(word, s[i]))

\* variant: split(" "), the space as the only separator
RECURSIVE SplitSpacesFrom(_, _, _)
SplitSpacesFrom(s, i, word) ==
    IF i > Len(s)
    THEN IF word = << >> THEN << >> ELSE << word >>
    ELSE IF s[i] = " "
         THEN IF word = << >>
              THEN SplitSpacesFrom(s, i + 1, << >>)
              ELSE << word >> \o SplitSpacesFrom(s, i + 1, << >>)
         ELSE SplitSpacesFrom(s, i + 1, Append(word, s[i]))

SplitOnSpaces(s) == SplitSpacesFrom(s, 1, << >>)

Split(s) == SplitFrom(s, 1, << >>)

\* " ".join(words)
RECURSIVE Join(_)
Join(words) ==
    IF words = << >> THEN << >>
    ELSE IF Len(words) = 1 THEN words[1]
    ELSE words[1] \o << " " >> \o Join(Tail(words))

\* message.split('\n')[0]
RECURSIVE FirstLineFrom(_, _)
FirstLineFrom(s, i) ==
    IF i > Len(s) \/ s[i] = "\n" THEN << >>
    ELSE << s[i] >> \o FirstLineFrom(s, i + 1)

FirstLine(s) == FirstLineFrom(s, 1)

\* An epoch-milliseconds value t of a payload is the record [sec, ms] standing for
\* sec * 1000 + ms (the values of the source do not fit TLC's 32-bit integers).
Millis(sec, ms) == [sec |-> sec, ms |-> ms]

ZeroTime == Millis(0, 0)

\* datetime.fromtimestamp(created_time / 1000).isoformat(): whole seconds and microseconds
FromTimestamp(t) == [sec |-> t.sec, usec |-> t.ms * 1000]

\* datetime.now().isoformat(); the model's clock counts seconds
NowIso(clock) == [sec |-> clock, usec |-> 0]

---------------------------------------------------------------------------
(* parse_linkedin_posts *)

\* variant: the date always read from the clock, created.time ignored
UgcPostDatedNow(element, clock) ==
    LET ugc_post_id == Get(element, "id", << >>)
        linkedin_share == Get(Get(element, "specificContent", EmptyDict),
                              "com.linkedin.ugc.ShareContent", EmptyDict)
        share_commentary == Get(linkedin_share, "shareCommentary", EmptyDict)
        content == Get(share_commentary, "text", << >>)
        post_url == IF ugc_post_id # << >>
                    THEN << "https://www.linkedin.com/feed/update/urn:li:ugcPost:" >>
                         \o ugc_post_id \o << "/" >>
                    ELSE << >>
    IN [date |-> NowIso(clock), content |-> content, url |-> post_url,
        entity_urn |-> << "urn:li:ugcPost:" >> \o ugc_post_id]

\* the record the primary-shape branch builds for one element
UgcPost(element, clock) ==
    LET ugc_post_id == Get(element, "id", << >>)
        linkedin_share == Get(Get(element, "specificContent", EmptyDict),
                              "com.linkedin.ugc.ShareContent", EmptyDict)
        share_commentary == Get(linkedin_share, "shareCommentary", EmptyDict)
        content == Get(share_commentary, "text", << >>)
        created_time == Get(Get(element, "created", EmptyDict), "time", ZeroTime)
        date == IF created_time # ZeroTime THEN FromTimestamp(created_time) ELSE NowIso(clock)
        post_url == IF ugc_post_id # << >>
                    THEN << "https://www.linkedin.com/feed/update/urn:li:ugcPost:" >>
                         \o ugc_post_id \o << "/" >>
                    ELSE << >>
    IN [date |-> date, content |-> content, url |-> post_url,
        entity_urn |-> << "urn:li:ugcPost:" >> \o ugc_post_id]

\* the record the fallback-shape branch builds for one element
ChangeLogPost(element, clock) ==
    LET entity_urn == Get(element, "entityUrn", << >>)
        content == IF "commentary" \in DOMAIN element
                   THEN Get(Get(element, "commentary", EmptyDict), "text", << >>)
                   ELSE IF "text" \in DOMAIN element
                        THEN Get(element, "text", << >>)
                        ELSE << >>
        created_time == Get(Get(element, "created", EmptyDict), "time", ZeroTime)
        date == IF created_time # ZeroTime THEN FromTimestamp(created_time) ELSE NowIso(clock)
        post_url == IF entity_urn # << >>
                    THEN << "https://www.linkedin.com/feed/update/" >>
                         \o entity_urn \o << "/" >>
                    ELSE << >>
    IN [date |-> date, content |-> content, url |-> post_url, entity_urn |-> entity_urn]

\* `if content:` of the primary-shape branch
UgcEmits(post) == post.content # << >>

\* variant: `if content:` in the fallback-shape branch too
ChangeLogEmitsOnContent(post) == post.content # << >>

\* `if content or entity_urn:` of the fallback-shape branch
ChangeLogEmits(post) == post.content # << >> \/ post.entity_urn # << >>

\* one iteration of the for loop: the records appended for `element`
ElementPosts(element, clock) ==
    IF "specificContent" \in DOMAIN element
    THEN IF UgcEmits(UgcPost(element, clock))
         THEN << UgcPost(element, clock) >> ELSE << >>
    ELSE IF ChangeLogEmits(ChangeLogPost(element, clock))
         THEN << ChangeLogPost(element, clock) >> ELSE << >>

\* variant: posts[-5:]
TruncateKeepLast(ps) ==
    IF Len(ps) <= POSTS_LIMIT THEN ps ELSE SubSeq(ps, Len(ps) - POSTS_LIMIT + 1, Len(ps))

\* return posts[:5]
Truncate(ps) == Take(ps, POSTS_LIMIT)

\* linkedin_data.get("elements", [])
Elements(data) == Get(data, "elements", << >>)

---------------------------------------------------------------------------
(* Raw payloads of the social endpoints *)

TextHi == << "h", "i" >>
TextYo == << "y", "o", " ", "y", "o" >>
TextScenario ==
    << "H","e","l","l","o"," ","w","o","r","l","d"," ","t","h","i","s"," ",
       "i","s"," ","a"," ","l","o","n","g"," ","p","o","s","t" >>

Created(t) == [time |-> t]

SpecificContent(text) ==
    "com.linkedin.ugc.ShareContent" :> [shareCommentary |-> [text |-> text]]

\* primary shape, text and id present
UgcFull == [id |-> << "7001" >>, specificContent |-> SpecificContent(TextHi),
            created |-> Created(Millis(1700000000, 0))]
\* primary shape, empty text
UgcNoText == [id |-> << "7002" >>, specificContent |-> SpecificContent(<< >>),
              created |-> Created(Millis(1700000100, 250))]
\* primary shape with empty text that also carries the fallback keys
UgcMixedNoText == [id |-> << "7003" >>, specificContent |-> SpecificContent(<< >>),
                   commentary |-> [text |-> TextYo], text |-> TextHi,
                   entityUrn |-> << "urn:li:share:3" >>,
                   created |-> Created(Millis(1700000200, 0))]
\* primary shape with text that also carries the fallback keys
UgcMixedText == [id |-> << "7004" >>, specificContent |-> SpecificContent(TextYo),
                 commentary |-> [text |-> TextHi], entityUrn |-> << "urn:li:share:4" >>,
                 created |-> Created(Millis(1700000300, 0))]
\* primary shape, specificContent is {}, no id, created.time is 0
UgcBare == [specificContent |-> EmptyDict, text |-> TextHi, created |-> Created(ZeroTime)]
\* primary shape with text, no id, no created
UgcNoIdNoTime == [specificContent |-> SpecificContent(TextHi)]
\* fallback shape, commentary.text and entityUrn
LogCommentary == [commentary |-> [text |-> TextYo], entityUrn |-> << "urn:li:share:11" >>,
                  created |-> Created(Millis(1700000400, 5))]
\* fallback shape, text only, no created
LogText == [text |-> TextHi]
\* fallback shape, entityUrn only, created.time is 0
LogUrnOnly == [entityUrn |-> << "urn:li:share:13" >>, created |-> Created(ZeroTime)]
\* fallback shape, nothing usable
LogEmpty == [created |-> Created(Millis(1700000500, 0))]
\* fallback shape, a commentary without text beside a text key
LogCommentaryNoText == [commentary |-> EmptyDict, text |-> TextHi]

AllKinds == {UgcFull, UgcNoText, UgcMixedNoText, UgcMixedText, UgcBare, UgcNoIdNoTime,
             LogCommentary, LogText, LogUrnOnly, LogEmpty, LogCommentaryNoText}

LongKinds == {UgcFull, UgcNoText, LogCommentary}

SeqsUpTo(S, n) == UNION {[1..k -> S] : k \in 0..n}

\* the element lists enumerated for parse_linkedin_posts
ElementLists == SeqsUpTo(AllKinds, MaxShort) \cup SeqsUpTo(LongKinds, MaxElems)

\* a response body: {"elements": [...]}, or a dict without the key
Payload(elements) == [elements |-> elements]

NoElementsKey == [paging |-> << "0" >>]

---------------------------------------------------------------------------
(* HTTP: what requests.get() can produce *)

\* requests.get raised a RequestException (connection error, timeout)
NetErr == [neterr |-> TRUE]

Http(status, body) == [status |-> status, body |-> body]

\* the endpoint was not called in this run
NoResp == [none |-> TRUE]

IsHttp(r) == "status" \in DOMAIN r

\* response.raise_for_status() raises HTTPError (a RequestException)
RaisesForStatus(r) == r.status >= 400

\* requests.get returned and raise_for_status let the response through
Succeeded(r) == IsHttp(r) /\ ~RaisesForStatus(r)

\* the body of an error answer
ErrorBody == [message |-> << "denied" >>]

\* a body that is a JSON array at the top level, [ ... ]
JsonArray(items) == [jsonArray |-> items]

\* an element that is a JSON string, not an object
JsonStringElement == [jsonString |-> TRUE]

IsDict(v) == "jsonArray" \notin DOMAIN v /\ "jsonString" \notin DOMAIN v

---------------------------------------------------------------------------
(* Environment *)

OptionalKeys == {"linkedin_access_token", "PORTFOLIO_GITHUB",
                 "youtube_api_key", "youtube_channel_ID"}

EnvValue(k) == << k, "-value" >>

\* the process environment after load_dotenv: the keys that are set
Environments == {[k \in ks |-> EnvValue(k)] : ks \in SUBSET OptionalKeys}

\* os.getenv(key, default); os.getenv(key) is Getenv(e, key, << >>), a falsy value
Getenv(e, key, default) == Get(e.vars, key, default)

---------------------------------------------------------------------------
(* fetch_linkedin_data *)

\* the response that reaches raise_for_status: the fallback's when the
\* primary answered with a status other than 200
LinkedinFinal(primary, fallback) ==
    IF IsHttp(primary) /\ primary.status # 200 THEN fallback ELSE primary

\* whether the memberChangeLogs request is issued
LinkedinFallsBack(primary) == IsHttp(primary) /\ primary.status # 200

\* variant: the artifact written before raise_for_status
RawFileWrittenEarly(final, old) == IF IsHttp(final) THEN final.body ELSE old

\* json.dump(data, f) on RAW_LINKEDIN_FILE: reached only past raise_for_status
RawFileAfter(final, old) == IF Succeeded(final) THEN final.body ELSE old

\* the value returned; {"elements": []} from the except clause
LinkedinReturn(final) == IF Succeeded(final) THEN final.body ELSE [elements |-> << >>]

\* data.get('elements', []) on a body that is no dict: AttributeError, not caught
LinkedinEscapes(final) == Succeeded(final) /\ ~IsDict(final.body)

---------------------------------------------------------------------------
(* fetch_github_activity *)

Digit == << "1", "2", "3", "4", "5", "6", "7", "8", "9" >>

Repo(i) == [full_name |-> << "octocat/repo", Digit[i] >>, name |-> << "repo", Digit[i] >>,
            pushed_at |-> << "2025-01-0", Digit[i] >>]

\* a commit of the commits response; every other message has a second line
CommitItem(i) ==
    [sha |-> << Digit[i], "a", "b", "c", "d", "e", "f", "0", "1" >>,
     commit |-> [message |-> IF i % 2 = 1
                             THEN << "f", "i", "x", Digit[i], "\n", "m", "o", "r", "e" >>
                             ELSE << "a", "d", "d", Digit[i] >>]]

\* `if repos and len(repos) > 0`
HasRepos(r) ==
    /\ Succeeded(r)
    /\ IF IsDict(r.body) THEN DOMAIN r.body # {} ELSE r.body.jsonArray # << >>

\* variant: the except clause of the listing call misses connection errors
ReposEscapesOnNetErr(r) == r = NetErr \/ (HasRepos(r) /\ IsDict(r.body))

\* repos[0] on a body that is a dict: KeyError, not a RequestException
ReposEscapes(r) == HasRepos(r) /\ IsDict(r.body)

\* whether the commits request is issued
NeedsCommits(r) == HasRepos(r) /\ ~ReposEscapes(r)

\* latest_commits: the comprehension over commits_data[:3], [] from the bare except
LatestCommits(c) ==
    IF Succeeded(c) /\ ~IsDict(c.body)
    THEN LET first == Take(c.body.jsonArray, COMMITS_LIMIT)
         IN [i \in 1..Len(first) |->
                [sha |-> Take(Get(first[i], "sha", << >>), SHA_LEN),
                 message |-> FirstLine(Get(Get(first[i], "commit", EmptyDict),
                                           "message", << >>))]]
    ELSE << >>

\* the value fetch_github_activity returns for listing answer r and commits answer c
GithubActivity(r, c) ==
    IF NeedsCommits(r)
    THEN LET latest_repo == r.body.jsonArray[1]
         IN [repo |-> Get(latest_repo, "full_name", << >>),
             repo_name |-> Get(latest_repo, "name", << >>),
             commits |-> LatestCommits(c),
             pushed_at |-> Get(latest_repo, "pushed_at", << >>)]
    ELSE Null

---------------------------------------------------------------------------
(* fetch_youtube_uploads_playlist, fetch_youtube_latest_videos *)

VideoItem(i) ==
    [snippet |-> [title |-> << "video", Digit[i] >>,
                  resourceId |-> [videoId |-> << "vid", Digit[i] >>],
                  publishedAt |-> << "2025-02-0", Digit[i] >>,
                  thumbnails |-> IF i % 2 = 1
                                 THEN [high |-> [url |-> << "https://img/", Digit[i] >>]]
                                 ELSE [default |-> [url |-> << "https://img/d" >>]]]]

ChannelItem(uploads) == [contentDetails |-> [relatedPlaylists |-> [uploads |-> uploads]]]

\* `"items" in data and len(data["items"]) > 0`
HasChannel(r) == Succeeded(r) /\ "items" \in DOMAIN r.body /\ r.body.items # << >>

\* data["items"][0]["contentDetails"]["relatedPlaylists"]["uploads"]: KeyError if absent
ChannelEscapes(r) ==
    /\ HasChannel(r)
    /\ LET item == r.body.items[1]
       IN ~ ( /\ "contentDetails" \in DOMAIN item
              /\ "relatedPlaylists" \in DOMAIN item.contentDetails
              /\ "uploads" \in DOMAIN item.contentDetails.relatedPlaylists )

\* the value fetch_youtube_uploads_playlist returns; << >> stands for None and ""
UploadsPlaylist(r) ==
    IF HasChannel(r) /\ ~ChannelEscapes(r)
    THEN r.body.items[1].contentDetails.relatedPlaylists.uploads
    ELSE << >>

\* variant: the playlistItems request issued after every answered lookup
NeedsPlaylistAlways(r) == Succeeded(r)

\* `if not uploads_playlist_id: return []` lets the playlistItems request through
NeedsPlaylist(r) == UploadsPlaylist(r) # << >>

\* one entry of `videos`
VideoOf(item) ==
    LET snippet == Get(item, "snippet", EmptyDict)
    IN [title |-> Get(snippet, "title", << >>),
        video_id |-> Get(Get(snippet, "resourceId", EmptyDict), "videoId", << >>),
        published_at |-> Get(snippet, "publishedAt", << >>),
        thumbnail |-> Get(Get(Get(snippet, "thumbnails", EmptyDict), "high", EmptyDict),
                          "url", << >>)]

\* the loop over data.get("items", []): one entry per item of the response
VideosOf(items) == [i \in 1..Len(items) |-> VideoOf(items[i])]

\* the value fetch_youtube_latest_videos returns for playlistItems answer p
LatestVideos(p) ==
    IF Succeeded(p) THEN VideosOf(Get(p.body, "items", << >>)) ELSE << >>

---------------------------------------------------------------------------
(* generate_data_json *)

Ellipsis == << ".", ".", "." >>

\* variant: `len(words) > 5`
PreviewStrictEllipsis(content) ==
    LET words == Take(Split(content), PREVIEW_WORDS)
    IN Join(words) \o (IF Len(words) > PREVIEW_WORDS THEN Ellipsis ELSE << >>)

\* words = content.split()[:5]; " ".join(words) + ("..." if len(words) >= 5 else "")
Preview(content) ==
    LET words == Take(Split(content), PREVIEW_WORDS)
    IN Join(words) \o (IF Len(words) >= PREVIEW_WORDS THEN Ellipsis ELSE << >>)

LatestLinkedinPost(ps) ==
    IF ps # << >>
    THEN LET content == Get(ps[1], "content", << >>)
         IN [preview |-> Preview(content),
             url |-> Get(ps[1], "url", << >>),
             full_content |-> content]
    ELSE Null

\* the dict `data` written to data.json
Document(ps, gh, yt, e, clock) ==
    [name |-> Getenv(e, "PORTFOLIO_NAME", << "Your Name" >>),
     title |-> Getenv(e, "PORTFOLIO_TITLE", << "Your Title" >>),
     linkedin_posts |-> ps,
     latest_linkedin_post |-> LatestLinkedinPost(ps),
     github_activity |-> gh,
     youtube_videos |-> yt,
     contact |-> [email |-> Getenv(e, "PORTFOLIO_EMAIL", << "your.email@example.com" >>),
                  github |-> Getenv(e, "PORTFOLIO_GITHUB", << "yourusername" >>),
                  linkedin |-> Getenv(e, "PORTFOLIO_LINKEDIN",
                                      << "https://linkedin.com/in/yourprofile" >>)],
     last_updated |-> NowIso(clock)]

---------------------------------------------------------------------------
(* What the three services can answer *)

\* the one element of end-to-end scenario 1
ScenarioElement == [id |-> << "7100" >>, specificContent |-> SpecificContent(TextScenario),
                    created |-> Created(Millis(1700000000, 0))]

MainKinds == {UgcFull, UgcNoText, LogText, JsonStringElement}

\* short lists of every kind, and the payloads of end-to-end scenarios 1 and 2
MainElementLists ==
    SeqsUpTo(MainKinds, MaxMainElems)
    \cup {<< ScenarioElement >>, << LogText, LogText >>, << UgcFull, JsonStringElement >>}

LinkedinBodies ==
    {Payload(es) : es \in MainElementLists} \cup {NoElementsKey, JsonArray(<< >>)}

LinkedinResponses ==
    {NetErr, Http(403, ErrorBody)} \cup {Http(200, b) : b \in LinkedinBodies}

ReposResponses ==
    {NetErr, Http(404, ErrorBody), Http(200, ErrorBody)}
    \cup {Http(200, JsonArray([i \in 1..n |-> Repo(i)])) : n \in 0..MaxRepos}

CommitsResponses ==
    {NetErr, Http(409, ErrorBody), Http(200, ErrorBody)}
    \cup {Http(200, JsonArray([i \in 1..n |-> CommitItem(i)])) : n \in 0..MaxCommits}

ChannelsResponses ==
    {NetErr, Http(403, ErrorBody),
     Http(200, [kind |-> << "youtube#channelListResponse" >>]),
     Http(200, [items |-> << >>]),
     Http(200, [items |-> << ChannelItem(<< "UU-uploads" >>) >>]),
     Http(200, [items |-> << ChannelItem(<< >>) >>]),
     Http(200, [items |-> << [id |-> << "UC-channel" >>] >>])}

PlaylistResponses ==
    {NetErr, Http(403, ErrorBody), Http(200, [kind |-> << "youtube#playlistItemListResponse" >>])}
    \cup {Http(200, [items |-> [i \in 1..n |-> VideoItem(i)]]) : n \in 0..MaxItems}

\* the files a previous run left behind
OldRaw == Payload(<< LogUrnOnly >>)

OldData ==
    [Document(<< >>, Null, << >>, [file |-> TRUE, vars |-> EmptyDict], 0)
        EXCEPT !.last_updated = NowIso(0)]

NoResponses == [ugcPosts |-> NoResp, memberChangeLogs |-> NoResp, repos |-> NoResp,
                commits |-> NoResp, channels |-> NoResp, playlistItems |-> NoResp]

---------------------------------------------------------------------------
(* The run: main() *)

\* variant: the document written on the way out, as from a finally clause
RaiseThroughFinally(exception) ==
    /\ pc' = "generate"
    /\ raised' = exception

\* the except clause of main(): log and re-raise; nothing else runs
Raise(exception) ==
    /\ pc' = "raised"
    /\ raised' = exception

LoadEnv ==
    /\ pc = "load_env"
    /\ IF env.file
       THEN pc' = "fetch_linkedin" /\ raised' = raised
       ELSE Raise("FileNotFoundError")
    /\ UNCHANGED <<env, now, requests, resp, rawFile, dataFile, dataWrites, linkedin_data,
                   idx, emitted, posts, call, firstPosts, github_activity, youtube_videos>>

FetchLinkedinData ==
    /\ pc = "fetch_linkedin"
    /\ \/ /\ Getenv(env, "linkedin_access_token", << >>) = << >>
          /\ Raise("ValueError")
          /\ UNCHANGED <<requests, resp, rawFile, linkedin_data>>
       \/ /\ Getenv(env, "linkedin_access_token", << >>) # << >>
          /\ \E primary \in LinkedinResponses :
               \E fallback \in (IF LinkedinFallsBack(primary)
                                THEN LinkedinResponses ELSE {NoResp}) :
                 LET final == LinkedinFinal(primary, fallback)
                 IN /\ requests' = requests \o << "ugcPosts" >> \o
                          (IF LinkedinFallsBack(primary)
                           THEN << "memberChangeLogs" >> ELSE << >>)
                    /\ resp' = [resp EXCEPT !.ugcPosts = primary,
                                            !.memberChangeLogs = fallback]
                    /\ rawFile' = RawFileAfter(final, rawFile)
                    /\ IF LinkedinEscapes(final)
                       THEN Raise("AttributeError") /\ linkedin_data' = linkedin_data
                       ELSE /\ linkedin_data' = LinkedinReturn(final)
                            /\ pc' = "parse"
                            /\ raised' = raised
    /\ idx' = 1
    /\ emitted' = << >>
    /\ UNCHANGED <<env, now, dataFile, dataWrites, posts, call, firstPosts,
                   github_activity, youtube_videos>>

\* where control goes when parse_linkedin_posts returns
AfterParse == IF call = 0 THEN "fetch_github" ELSE "parsed"

\* `if not elements: return []`
ParseEmpty ==
    /\ pc = "parse"
    /\ Elements(linkedin_data) = << >>
    /\ posts' = << >>
    /\ pc' = AfterParse
    /\ UNCHANGED <<env, now, requests, resp, rawFile, dataFile, dataWrites, linkedin_data,
                   idx, emitted, call, firstPosts, github_activity, youtube_videos, raised>>

\* one iteration of `for element in elements`
ParseElement ==
    /\ pc = "parse"
    /\ Elements(linkedin_data) # << >>
    /\ idx <= Len(Elements(linkedin_data))
    /\ IsDict(Elements(linkedin_data)[idx])
    /\ emitted' = emitted \o ElementPosts(Elements(linkedin_data)[idx], now)
    /\ idx' = idx + 1
    /\ UNCHANGED <<pc, env, now, requests, resp, rawFile, dataFile, dataWrites,
                   linkedin_data, posts, call, firstPosts, github_activity,
                   youtube_videos, raised>>

\* element.get on an element that is no dict: AttributeError
ParseRaise ==
    /\ pc = "parse"
    /\ Elements(linkedin_data) # << >>
    /\ idx <= Len(Elements(linkedin_data))
    /\ ~IsDict(Elements(linkedin_data)[idx])
    /\ Raise("AttributeError")
    /\ UNCHANGED <<env, now, requests, resp, rawFile, dataFile, dataWrites, linkedin_data,
                   idx, emitted, posts, call, firstPosts, github_activity, youtube_videos>>

\* `return posts[:5]`
ParseReturn ==
    /\ pc = "parse"
    /\ Elements(linkedin_data) # << >>
    /\ idx > Len(Elements(linkedin_data))
    /\ posts' = Truncate(emitted)
    /\ pc' = AfterParse
    /\ UNCHANGED <<env, now, requests, resp, rawFile, dataFile, dataWrites, linkedin_data,
                   idx, emitted, call, firstPosts, github_activity, youtube_videos, raised>>

FetchGithubActivity ==
    /\ pc = "fetch_github"
    /\ \/ /\ Getenv(env, "PORTFOLIO_GITHUB", << >>) = << >>
          /\ github_activity' = Null
          /\ pc' = "fetch_youtube"
          /\ UNCHANGED <<requests, resp, raised>>
       \/ /\ Getenv(env, "PORTFOLIO_GITHUB", << >>) # << >>
          /\ \E r \in ReposResponses :
               \E c \in (IF NeedsCommits(r) THEN CommitsResponses ELSE {NoResp}) :
                 /\ requests' = requests \o << "repos" >> \o
                       (IF NeedsCommits(r) THEN << "commits" >> ELSE << >>)
                 /\ resp' = [resp EXCEPT !.repos = r, !.commits = c]
                 /\ IF ReposEscapes(r)
                    THEN Raise("KeyError") /\ github_activity' = github_activity
                    ELSE /\ github_activity' = GithubActivity(r, c)
                         /\ pc' = "fetch_youtube"
                         /\ raised' = raised
    /\ UNCHANGED <<env, now, rawFile, dataFile, dataWrites, linkedin_data, idx, emitted,
                   posts, call, firstPosts, youtube_videos>>

FetchYoutubeLatestVideos ==
    /\ pc = "fetch_youtube"
    /\ \/ /\ \/ Getenv(env, "youtube_api_key", << >>) = << >>
             \/ Getenv(env, "youtube_channel_ID", << >>) = << >>
          /\ youtube_videos' = << >>
          /\ pc' = "generate"
          /\ UNCHANGED <<requests, resp, raised>>
       \/ /\ Getenv(env, "youtube_api_key", << >>) # << >>
          /\ Getenv(env, "youtube_channel_ID", << >>) # << >>
          /\ \E r \in ChannelsResponses :
               \E p \in (IF NeedsPlaylist(r) THEN PlaylistResponses ELSE {NoResp}) :
                 /\ requests' = requests \o << "channels" >> \o
                       (IF NeedsPlaylist(r) THEN << "playlistItems" >> ELSE << >>)
                 /\ resp' = [resp EXCEPT !.channels = r, !.playlistItems = p]
                 /\ IF ChannelEscapes(r)
                    THEN Raise("KeyError") /\ youtube_videos' = youtube_videos
                    ELSE /\ youtube_videos' = IF NeedsPlaylist(r)
                                              THEN LatestVideos(p) ELSE << >>
                         /\ pc' = "generate"
                         /\ raised' = raised
    /\ UNCHANGED <<env, now, rawFile, dataFile, dataWrites, linkedin_data, idx, emitted,
                   posts, call, firstPosts, github_activity>>

GenerateDataJson ==
    /\ pc = "generate"
    /\ dataFile' = Document(posts, github_activity, youtube_videos, env, now)
    /\ dataWrites' = dataWrites + 1
    /\ pc' = "done"
    /\ UNCHANGED <<env, now, requests, resp, rawFile, linkedin_data, idx, emitted, posts,
                   call, firstPosts, github_activity, youtube_videos, raised>>

\* time passes
Tick ==
    /\ now <= MaxClock
    /\ now' = now + 1
    /\ UNCHANGED <<pc, env, requests, resp, rawFile, dataFile, dataWrites, linkedin_data,
                   idx, emitted, posts, call, firstPosts, github_activity,
                   youtube_videos, raised>>

Init ==
    /\ pc = "load_env"
    /\ env \in [file : BOOLEAN, vars : Environments]
    /\ now = 1
    /\ requests = << >>
    /\ resp = NoResponses
    /\ rawFile = OldRaw
    /\ dataFile = OldData
    /\ dataWrites = 0
    /\ linkedin_data = Null
    /\ idx = 1
    /\ emitted = << >>
    /\ posts = << >>
    /\ call = 0
    /\ firstPosts = << >>
    /\ github_activity = Null
    /\ youtube_videos = << >>
    /\ raised = ""

Next ==
    \/ LoadEnv
    \/ FetchLinkedinData
    \/ ParseEmpty
    \/ ParseElement
    \/ ParseRaise
    \/ ParseReturn
    \/ FetchGithubActivity
    \/ FetchYoutubeLatestVideos
    \/ GenerateDataJson
    \/ Tick

Spec == Init /\ [][Next]_vars

---------------------------------------------------------------------------
(* parse_linkedin_posts on its own, invoked twice on one payload *)

ParseInputs == {Payload(es) : es \in ElementLists} \cup {NoElementsKey}

FullEnvironment == [file |-> TRUE, vars |-> [k \in OptionalKeys |-> EnvValue(k)]]

\* a second invocation on the same payload: `posts = []` and the loop start over
ParseAgain ==
    /\ pc = "parsed"
    /\ call = 1
    /\ firstPosts' = posts
    /\ call' = 2
    /\ idx' = 1
    /\ emitted' = << >>
    /\ pc' = "parse"
    /\ UNCHANGED <<env, now, requests, resp, rawFile, dataFile, dataWrites, linkedin_data,
                   posts, github_activity, youtube_videos, raised>>

InitParse ==
    /\ pc = "parse"
    /\ env = FullEnvironment
    /\ now = 1
    /\ requests = << >>
    /\ resp = NoResponses
    /\ rawFile = OldRaw
    /\ dataFile = OldData
    /\ dataWrites = 0
    /\ linkedin_data \in ParseInputs
    /\ idx = 1
    /\ emitted = << >>
    /\ posts = << >>
    /\ call = 1
    /\ firstPosts = << >>
    /\ github_activity = Null
    /\ youtube_videos = << >>
    /\ raised = ""

NextParse ==
    \/ ParseEmpty
    \/ ParseElement
    \/ ParseReturn
    \/ ParseAgain
    \/ Tick

SpecParse == InitParse /\ [][NextParse]_vars

---------------------------------------------------------------------------
(* generate_data_json on its own, over every short content string *)

ContentStrings == SeqsUpTo({"a", " ", "\n"}, MaxContentLen)

\* the post lists parse_linkedin_posts returns for one or two fallback-shape elements
PreviewPostLists ==
    {<< >>}
    \cup {Truncate(ElementPosts([text |-> c, entityUrn |-> << "urn:li:share:21" >>], 1)
                   \o tail) :
            c \in ContentStrings, tail \in {<< >>, ElementPosts(LogCommentary, 1)}}

InitAssemble ==
    /\ pc = "generate"
    /\ env = FullEnvironment
    /\ now = 1
    /\ requests = << >>
    /\ resp = NoResponses
    /\ rawFile = OldRaw
    /\ dataFile = OldData
    /\ dataWrites = 0
    /\ linkedin_data = Null
    /\ idx = 1
    /\ emitted = << >>
    /\ posts \in PreviewPostLists
    /\ call = 0
    /\ firstPosts = << >>
    /\ github_activity = Null
    /\ youtube_videos = << >>
    /\ raised = ""

NextAssemble == GenerateDataJson

SpecAssemble == InitAssemble /\ [][NextAssemble]_vars

---------------------------------------------------------------------------
(* Vocabulary of the properties *)

\* a step of the run itself (the passing of time left out)
RunStep ==
    \/ LoadEnv
    \/ FetchLinkedinData
    \/ ParseEmpty
    \/ ParseElement
    \/ ParseRaise
    \/ ParseReturn
    \/ FetchGithubActivity
    \/ FetchYoutubeLatestVideos
    \/ GenerateDataJson

Issued(name) == \E i \in 1..Len(requests) : requests[i] = name

TokenSet == "linkedin_access_token" \in DOMAIN env.vars
UsernameSet == "PORTFOLIO_GITHUB" \in DOMAIN env.vars
VideoKeysSet == {"youtube_api_key", "youtube_channel_ID"} \subseteq DOMAIN env.vars

\* a network error or a status of 400 and above
FailedCall(r) == r = NetErr \/ (IsHttp(r) /\ r.status >= 400)
\* an answer with a status below 400
AnsweredOk(r) == IsHttp(r) /\ r.status < 400

\* the answer the social source finally got, if any
SocialAnswer ==
    IF AnsweredOk(resp.ugcPosts) /\ resp.ugcPosts.status = 200 THEN resp.ugcPosts
    ELSE resp.memberChangeLogs
SocialFailed == Issued("ugcPosts") /\ ~AnsweredOk(SocialAnswer)
GithubFailed == ~UsernameSet \/ (Issued("repos") /\ FailedCall(resp.repos))
VideoFailed ==
    \/ ~VideoKeysSet
    \/ (Issued("channels") /\ FailedCall(resp.channels))
    \/ (Issued("playlistItems") /\ FailedCall(resp.playlistItems))

\* bodies of successful answers that the code can walk without an exception
WalkableSocial(r) ==
    AnsweredOk(r) =>
        /\ "jsonArray" \notin DOMAIN r.body
        /\ \A i \in 1..Len(Elements(r.body)) : "jsonString" \notin DOMAIN Elements(r.body)[i]
WalkableRepos(r) == AnsweredOk(r) => "jsonArray" \in DOMAIN r.body
WalkableChannels(r) ==
    (AnsweredOk(r) /\ "items" \in DOMAIN r.body /\ r.body.items # << >>)
        => "contentDetails" \in DOMAIN r.body.items[1]

\* every failure met so far is one of the recoverable ones
OnlyRecoverable ==
    /\ WalkableSocial(SocialAnswer)
    /\ WalkableRepos(resp.repos)
    /\ WalkableChannels(resp.channels)

TopLevelKeys == {"name", "title", "linkedin_posts", "latest_linkedin_post",
                 "github_activity", "youtube_videos", "contact", "last_updated"}

---------------------------------------------------------------------------
(* C1 *)

\* C1: when the configuration file exists, the access token is set and every
\* failure is a recoverable one (network error, error status, missing username,
\* missing video key or channel id), main() does not raise, keeps running until
\* it is done, and when done has written data.json exactly once, with all eight
\* top-level keys, a failed source's section being null (github_activity,
\* latest_linkedin_post) or the empty list (linkedin_posts, youtube_videos).
Theorem_C1 ==
    (env.file /\ TokenSet /\ OnlyRecoverable) =>
        /\ pc # "raised" /\ raised = ""
        /\ pc # "done" => (dataWrites = 0 /\ dataFile = OldData /\ ENABLED RunStep)
        /\ pc = "done" =>
            /\ dataWrites = 1
            /\ DOMAIN dataFile = TopLevelKeys
            /\ SocialFailed => /\ dataFile.linkedin_posts = << >>
                               /\ dataFile.latest_linkedin_post = Null
            /\ GithubFailed => dataFile.github_activity = Null
            /\ VideoFailed => dataFile.youtube_videos = << >>
            /\ (Issued("commits") /\ FailedCall(resp.commits))
                  => dataFile.github_activity.commits = << >>

\* every source failed, by a network error or an error status, and the run is done
Witness_C1 ==
    /\ pc = "done"
    /\ dataWrites = 1
    /\ resp.ugcPosts = Http(403, ErrorBody)
    /\ resp.memberChangeLogs = NetErr
    /\ resp.repos = Http(404, ErrorBody)
    /\ resp.channels = NetErr
    /\ dataFile.github_activity = Null
    /\ dataFile.linkedin_posts = << >>

---------------------------------------------------------------------------
(* C2 *)

\* C2: on a fatal error (no configuration file, no access token, an exception
\* escaping a component) main() re-raises, the run stops there, and data.json is
\* never written: its content is the one it had before the run; in the two
\* credential cases no HTTP request has been issued.
Theorem_C2 ==
    /\ (~env.file /\ pc # "load_env")
          => (pc = "raised" /\ raised = "FileNotFoundError" /\ requests = << >>)
    /\ (env.file /\ ~TokenSet /\ pc \notin {"load_env", "fetch_linkedin"})
          => (pc = "raised" /\ raised = "ValueError" /\ requests = << >>)
    /\ (env.file /\ TokenSet /\ ~OnlyRecoverable)
          => (pc \in {"parse", "raised"} /\ dataWrites = 0 /\ dataFile = OldData)
    /\ (pc = "raised" \/ raised # "") =>
          /\ pc = "raised" /\ raised # ""
          /\ dataWrites = 0
          /\ dataFile = OldData
          /\ ~ENABLED RunStep

\* an exception escaped the code-hosting fetcher after the social fetcher succeeded
Witness_C2 ==
    /\ pc = "raised"
    /\ raised = "KeyError"
    /\ rawFile # OldRaw
    /\ Issued("repos")
    /\ dataFile = OldData

---------------------------------------------------------------------------
(* C3 *)

Scenario2Body == Payload(<< LogText, LogText >>)

---------------------------------------------------------------------------
(* C4 *)

\* C4: the commits request is issued only if the listing call succeeded and
\* returned at least one repository, otherwise fetch_github_activity returns
\* null; the playlist-items request is issued only if the channel lookup
\* succeeded and returned at least one item, otherwise
\* fetch_youtube_latest_videos returns the empty list.
Theorem_C4 ==
    LET listingUsable == /\ AnsweredOk(resp.repos)
                         /\ "jsonArray" \in DOMAIN resp.repos.body
                         /\ Len(resp.repos.body.jsonArray) >= 1
        lookupUsable == /\ AnsweredOk(resp.channels)
                        /\ "items" \in DOMAIN resp.channels.body
                        /\ Len(resp.channels.body.items) >= 1
    IN /\ Issued("commits") => listingUsable
       /\ (~listingUsable /\ pc \in {"fetch_youtube", "generate", "done"})
             => (github_activity = Null /\ resp.commits = NoResp)
       /\ Issued("playlistItems") => lookupUsable
       /\ (~lookupUsable /\ pc \in {"generate", "done"})
             => (youtube_videos = << >> /\ resp.playlistItems = NoResp)

\* scenarios 3 and 4: zero repositories listed, zero channels found
Witness_C4 ==
    /\ pc = "done"
    /\ resp.repos = Http(200, JsonArray(<< >>))
    /\ resp.channels = Http(200, [items |-> << >>])
    /\ ~Issued("commits")
    /\ ~Issued("playlistItems")

---------------------------------------------------------------------------
(* C5 *)

\* C5: the list fetch_youtube_latest_videos(max_results=5) returns, and so the
\* youtube_videos field of data.json, has at most max_results entries whatever
\* the playlist-items response holds.
Counterexample_C5 ==
    /\ Len(youtube_videos) <= MAX_RESULTS
    /\ Len(dataFile.youtube_videos) <= MAX_RESULTS

---------------------------------------------------------------------------
(* What the normalisation rules of the specification expect of one element *)

IsPrimaryShape(e) == "specificContent" \in DOMAIN e

Field(d, k) == IF k \in DOMAIN d THEN d[k] ELSE << >>

\* primary shape: the nested shareCommentary text; fallback shape:
\* commentary.text when there is a commentary, else text
ExpectedContent(e) ==
    IF IsPrimaryShape(e)
    THEN Field(Field(Field(e.specificContent, "com.linkedin.ugc.ShareContent"),
                     "shareCommentary"), "text")
    ELSE IF "commentary" \in DOMAIN e THEN Field(e.commentary, "text")
         ELSE Field(e, "text")

ExpectedIdentifier(e) ==
    IF IsPrimaryShape(e) THEN << "urn:li:ugcPost:" >> \o Field(e, "id")
    ELSE Field(e, "entityUrn")

ExpectedToEmit(e) ==
    IF IsPrimaryShape(e) THEN ExpectedContent(e) # << >>
    ELSE ExpectedContent(e) # << >> \/ Field(e, "entityUrn") # << >>

\* whether the element carries a creation time other than zero
HasCreationTime(e) ==
    /\ "created" \in DOMAIN e
    /\ "time" \in DOMAIN e.created
    /\ e.created.time # ZeroTime

\* the records expected of the first n elements, in source order
RECURSIVE ExpectedRecords(_, _)
ExpectedRecords(es, n) ==
    IF n = 0 THEN << >>
    ELSE ExpectedRecords(es, n - 1) \o
         (IF ExpectedToEmit(es[n])
          THEN << [content |-> ExpectedContent(es[n]),
                   entity_urn |-> ExpectedIdentifier(es[n]),
                   timed |-> HasCreationTime(es[n])] >>
          ELSE << >>)

Payloaded == Elements(linkedin_data)

SameRecord(post, expected) ==
    /\ post.content = expected.content
    /\ post.entity_urn = expected.entity_urn

---------------------------------------------------------------------------
(* C6 *)

\* C6: parse_linkedin_posts returns exactly the first min(5, k) of the k records
\* emitted from the elements, in source order: the result is a prefix of the
\* emitted sequence, of length at most 5.
Theorem_C6 ==
    pc = "parsed" =>
        LET expected == ExpectedRecords(Payloaded, Len(Payloaded))
            k == Len(expected)
        IN /\ Len(posts) = (IF k < 5 THEN k ELSE 5)
           /\ Len(posts) <= 5
           /\ \A i \in 1..Len(posts) : SameRecord(posts[i], expected[i])
           /\ Payloaded # << >> =>
                 /\ Len(emitted) = k
                 /\ \A i \in 1..Len(posts) : posts[i] = emitted[i]

\* more than five records were emitted and five were returned
Witness_C6 ==
    /\ pc = "parsed"
    /\ Len(emitted) > 5
    /\ Len(posts) = 5
    /\ \E i \in 1..4 : posts[i].content # posts[i + 1].content

---------------------------------------------------------------------------
(* C9 *)

\* C9 as stated: two invocations of parse_linkedin_posts on one payload return
\* identical lists, also when an element has a zero or absent created.time.
Counterexample_C9 ==
    (pc = "parsed" /\ call = 2) => posts = firstPosts

\* C9 as amended: two invocations on one payload return lists of the same
\* length whose records agree in content, url and entity identifier, and in
\* date for every record whose element carries a non-zero created.time (the
\* date of the others is the clock's reading at each invocation).
Theorem_C9 ==
    (pc = "parsed" /\ call = 2) =>
        LET expected == ExpectedRecords(Payloaded, Len(Payloaded))
        IN /\ Len(posts) = Len(firstPosts)
           /\ \A i \in 1..Len(posts) :
                 /\ posts[i].content = firstPosts[i].content
                 /\ posts[i].url = firstPosts[i].url
                 /\ posts[i].entity_urn = firstPosts[i].entity_urn
                 /\ expected[i].timed => posts[i].date = firstPosts[i].date
                 /\ ~expected[i].timed =>
                       /\ posts[i].date.sec >= firstPosts[i].date.sec
                       /\ posts[i].date.sec <= now

\* the clock advanced between two invocations on a payload with an untimed element
Witness_C9 ==
    /\ pc = "parsed"
    /\ call = 2
    /\ posts # firstPosts
    /\ Len(posts) = 2
    /\ posts[1] = firstPosts[1]
    /\ posts[2].date # firstPosts[2].date

---------------------------------------------------------------------------
(* C10 *)

\* C10: an element with a "specificContent" key follows the primary-shape rule
\* even if it also has "commentary", "text" or "entityUrn" keys, and yields a
\* record iff its nested shareCommentary text is non-empty; an element without
\* the key follows the fallback-shape rule and yields a record iff its content
\* (commentary.text, else text) is non-empty or its entity identifier is present.
Theorem_C10 ==
    (pc = "parse" /\ Payloaded # << >>) =>
        LET expected == ExpectedRecords(Payloaded, idx - 1)
        IN /\ Len(emitted) = Len(expected)
           /\ \A i \in 1..Len(emitted) : SameRecord(emitted[i], expected[i])

\* a primary-shape element with fallback keys and no text was skipped, an
\* identifier-only fallback element was kept
Witness_C10 ==
    /\ pc = "parsed"
    /\ linkedin_data = Payload(<< UgcMixedNoText, LogUrnOnly >>)
    /\ Len(posts) = 1
    /\ posts[1].content = << >>

---------------------------------------------------------------------------
(* C7 *)

Blank == {" ", "\t", "\n", "\r", "\f"}

\* the positions at which a word of s starts
WordStarts(s) == {i \in 1..Len(s) : s[i] \notin Blank /\ (i = 1 \/ s[i - 1] \in Blank)}

\* the position at which the word starting at i ends
WordEnd(s, i) ==
    CHOOSE j \in i..Len(s) : /\ \A k \in i..j : s[k] \notin Blank
                             /\ (j = Len(s) \/ s[j + 1] \in Blank)

NthWord(s, n) ==
    LET i == CHOOSE p \in WordStarts(s) : Cardinality({q \in WordStarts(s) : q <= p}) = n
    IN SubSeq(s, i, WordEnd(s, i))

\* words n..k of s with one space between them
RECURSIVE WordsJoined(_, _, _)
WordsJoined(s, n, k) ==
    IF n > k THEN << >>
    ELSE NthWord(s, n) \o (IF n < k THEN << " " >> \o WordsJoined(s, n + 1, k) ELSE << >>)

ExpectedPreview(s) ==
    LET w == Cardinality(WordStarts(s))
    IN WordsJoined(s, 1, IF w < 5 THEN w ELSE 5)
       \o (IF w >= 5 THEN << ".", ".", "." >> ELSE << >>)

---------------------------------------------------------------------------
(* C8 *)

\* "Hello world this is a long..."
HelloLongPreview ==
    << "H","e","l","l","o"," ","w","o","r","l","d"," ","t","h","i","s"," ",
       "i","s"," ","a"," ","l","o","n","g",".",".","." >>

\* "Hello world this is a..."
HelloPreview ==
    << "H","e","l","l","o"," ","w","o","r","l","d"," ","t","h","i","s"," ",
       "i","s"," ","a",".",".","." >>

Scenario1 == pc = "done" /\ resp.ugcPosts = Http(200, Payload(<< ScenarioElement >>))

\* C8 as stated: when the primary endpoint succeeds with the one element of
\* scenario 1 (shareCommentary text "Hello world this is a long post",
\* created.time 1700000000000), data.json holds exactly one post and the
\* preview "Hello world this is a long...".
Counterexample_C8 ==
    Scenario1 =>
        /\ Len(dataFile.linkedin_posts) = 1
        /\ dataFile.latest_linkedin_post.preview = HelloLongPreview

\* C8 as amended: in scenario 1 data.json holds exactly one post, whose content
\* is the text of the element, and the preview is the first five words and the
\* ellipsis, "Hello world this is a...".
Theorem_C8 ==
    Scenario1 =>
        /\ Len(dataFile.linkedin_posts) = 1
        /\ dataFile.linkedin_posts[1].content = TextScenario
        /\ dataFile.latest_linkedin_post.preview = HelloPreview
        /\ dataFile.latest_linkedin_post.full_content = TextScenario

\* scenario 1 ran to the end
Witness_C8 ==
    /\ Scenario1
    /\ resp.memberChangeLogs = NoResp
    /\ dataWrites = 1
    /\ Len(dataFile.linkedin_posts) = 1
    /\ dataFile.linkedin_posts[1].date = FromTimestamp(Millis(1700000000, 0))

====
